---- MODULE Spec2Model ----
(***************************************************************************)
(* bin_diff_tool: directory-level patching.  A model of the diff engine,   *)
(* the patch container, the apply engine and the merge engine, with the    *)
(* file system the operations act on.                                      *)
(*                                                                         *)
(* A path is a sequence of name segments (<<1, 2>> is "1/2"); the root of  *)
(* a tree is <<>>.  A directory tree is a record [files, dirs]: files maps *)
(* the paths of its regular files to their contents, dirs is the set of    *)
(* its directories.  A file's content is a small integer; its digest and   *)
(* its size are functions of the content.                                  *)
(***************************************************************************)
EXTENDS Integers, Sequences, FiniteSets, TLC

VARIABLES
    base,         \* the oldest released tree S0: the tree target_dir starts as
    latest,       \* the newest released tree Sn (create_patch's target_dir)
    current,      \* the updater's `current` container: P1 folded with P2..Pn
    hops,         \* how many patches are folded into `current`
    target_dir,   \* the tree apply_patch mutates
    patch,        \* the container handed to apply_patch
    temp_dir,     \* apply_patch's staging directory dft_apply_<pid>
    checksums,    \* the manifest apply_patch loaded
    pc,           \* where apply_patch is
    todo,         \* what is left of the current phase of apply_patch
    log,          \* the file mutations apply_patch has performed, in order
    warned,       \* the paths verify_original_checksum has warned about
    diffs,        \* the Vec<FileDiff> compare_directories returned
    checksums1,   \* merge_checksums: the first manifest
    checksums2,   \* merge_checksums: the second manifest
    merged,       \* merge_checksums: the result
    hex_str,      \* HashResult::from_hex: the string s it is given
    hash_result,  \* HashResult::from_hex: what it returns
    file_path,    \* is_text_file: the file it is asked about
    is_text,      \* is_text_file: its answer
    archive,      \* the form of the file at patch_path that `patch` is read from
    target_at,    \* where the target directory lies in the tree target_dir holds
    runs,         \* the operations this process has started
    call,         \* the operation the process is in, with its arguments
    result,       \* what create_patch, merge_patches or show_patch returned
    output,       \* the file at the output path of create_patch and merge_patches
    dft_patch,    \* create_patch's staging directory dft_patch_<pid>
    dft_append,   \* merge_patches' staging directory dft_append_<pid>
    dft_show,     \* show_patch's staging directory dft_show_<pid>
    invocation,   \* two apply_patch calls of one process: where each is, its
                  \* target, its container, the manifest it loaded, its walk
    serialised,   \* whether the callers hold patch_lock() around apply_patch
    patch_lock    \* who holds PATCH_MUTEX: 0 when it is free

\* the variables of the patch engine, but for pc
patchVars == <<base, latest, current, hops, target_dir, patch, temp_dir, checksums,
               todo, log, warned, diffs, checksums1, checksums2, merged>>

hexVars == <<hex_str, hash_result>>

textVars == <<file_path, is_text>>

callVars == <<archive, target_at, runs>>

processVars == <<call, result, output, dft_patch, dft_append, dft_show>>

overlapVars == <<invocation, serialised, patch_lock>>

\* the variables no step of apply_patch, compare_directories or merge_checksums
\* changes
rest == <<hexVars, textVars, callVars, processVars, overlapVars>>

vars == <<patchVars, pc, rest>>

-----------------------------------------------------------------------------
(* Bounds of the model *)

\* distinct file contents
MaxContent == 2
\* depth of the deepest path
MaxDepth == 3
\* patches the updater folds into one
MaxHops == 3
\* file bodies staged in a container handed to apply_patch (added/ + modified/)
MaxBodies == 2
\* entries of `deleted` in a container handed to apply_patch
MaxDeleted == 2
\* operations one process runs, one after another
MaxRuns == 2
\* file bodies in an archive handed to an operation of such a process
MaxStaged == 1
\* bodies the two archives of a merge stage without listing them
MaxUnlisted == 1

\* bytes of a digest ([u8; 32] in the program): from_hex wants 2 * HashBytes characters
HashBytes == 2
\* bytes is_text_file reads from the head of a file ([0u8; 512] in the program)
PeekLen == 2

Contents == 1..MaxContent

\* the path 1/1/.../1 of k segments
Spine(k) == [i \in 1..k |-> 1]

\* 1, 1/1, 1/1/1, ... and the sibling 1/2
Paths == {Spine(k) : k \in 1..MaxDepth} \cup {<<1, 2>>}

\* the two flat paths the manifest-level merge is explored on
FlatPaths == {<<1>>, <<2>>}

Root == <<>>

\* the segment ".." of a path string, and the "/" an absolute path string begins with
DotDot == 0
Slash == -1

-----------------------------------------------------------------------------
(* Generic helpers *)

\* all the orders in which a HashMap or a directory walk may yield the set S
Perms(S) ==
    {s \in [1..Cardinality(S) -> S] : \A i, j \in 1..Cardinality(S) : s[i] = s[j] => i = j}

Range(s) == {s[i] : i \in 1..Len(s)}

\* HashMap::insert
Put(f, k, v) == [x \in DOMAIN f \cup {k} |-> IF x = k THEN v ELSE f[x]]

\* removal of a key
Drop(f, k) == [x \in DOMAIN f \ {k} |-> f[x]]

EmptyMap == [x \in {} |-> 0]

\* every map from a subset of K to V
PartialMaps(K, V) == UNION {[D -> V] : D \in SUBSET K}

-----------------------------------------------------------------------------
(* The file system *)

Parent(p) == SubSeq(p, 1, Len(p) - 1)

\* the proper prefixes of p, the root included
Ancestors(p) == {SubSeq(p, 1, k) : k \in 0..(Len(p) - 1)}

IsFile(t, p) == p \in DOMAIN t.files

IsDir(t, p) == p \in t.dirs

\* Path::exists
Exists(t, p) == IsFile(t, p) \/ IsDir(t, p)

\* the entries of directory d
Children(t, d) == {q \in DOMAIN t.files \cup t.dirs : q # Root /\ Parent(q) = d}

\* a tree holding the files f and exactly the directories they need
TreeOf(f) == [files |-> f, dirs |-> {Root} \cup UNION {Ancestors(p) : p \in DOMAIN f}]

\* no regular file is a directory prefix of another file
ValidFiles(f) == \A p, q \in DOMAIN f : p \notin Ancestors(q)

FileMaps == {f \in PartialMaps(Paths, Contents) : ValidFiles(f)}

Trees == {TreeOf(f) : f \in FileMaps}

\* fs::create_dir_all: fails when d or one of its prefixes is a regular file
create_dir_all(t, d) ==
    IF \E q \in Ancestors(d) \cup {d} : IsFile(t, q)
    THEN [ok |-> FALSE, fs |-> t]
    ELSE [ok |-> TRUE, fs |-> [t EXCEPT !.dirs = @ \cup Ancestors(d) \cup {d}]]

\* fs::copy of a body c to p: fails when p is a directory or p's parent is none
fs_copy(t, p, c) ==
    IF IsDir(t, p) \/ ~IsDir(t, Parent(p))
    THEN [ok |-> FALSE, fs |-> t]
    ELSE [ok |-> TRUE, fs |-> [t EXCEPT !.files = Put(@, p, c)]]

\* fs::remove_file: fails on a directory
remove_file(t, p) ==
    IF IsFile(t, p)
    THEN [ok |-> TRUE, fs |-> [t EXCEPT !.files = Drop(@, p)]]
    ELSE [ok |-> FALSE, fs |-> t]

\* fs::remove_dir_all in the place of fs::remove_dir: d goes with all it holds
remove_dir_all(t, d) ==
    IF ~IsDir(t, d) THEN t
    ELSE [files |-> [p \in {q \in DOMAIN t.files : d \notin Ancestors(q)} |-> t.files[p]],
          dirs |-> {q \in t.dirs : q # d /\ d \notin Ancestors(q)}]

\* `let _ = fs::remove_dir(d)`: removes d when it is an empty directory
remove_dir(t, d) ==
    IF IsDir(t, d) /\ Children(t, d) = {}
    THEN [t EXCEPT !.dirs = @ \ {d}]
    ELSE t

\* the parent directories, then the copy: `create_dir_all(parent)?; fs::copy(..)?`
copy_into(t, p, c) ==
    LET made == create_dir_all(t, Parent(p))
    IN  IF made.ok THEN fs_copy(made.fs, p, c) ELSE made

-----------------------------------------------------------------------------
(* Hashing and scanning *)

\* SHA-256 of a content: a digest is tagged, distinct contents get distinct digests
compute_file_hash(c) == <<"sha256", c>>

Digests == {compute_file_hash(c) : c \in Contents}

\* `path.metadata()?.len()`: the contents 2k-1 and 2k have the same length
fsize(c) == (c + 1) \div 2

FileInfo(c) == [hash |-> compute_file_hash(c), fsize |-> fsize(c)]

\* scan_directory: every regular file with its FileInfo; empty when dir is missing
scan_directory(t) ==
    IF ~IsDir(t, Root) THEN EmptyMap
    ELSE [p \in DOMAIN t.files |-> FileInfo(t.files[p])]

\* the scan as a path -> digest mapping
DigestScan(t) == [p \in DOMAIN scan_directory(t) |-> scan_directory(t)[p].hash]

-----------------------------------------------------------------------------
(* The diff engine *)

Added(p) == [kind |-> "Added", path |-> p]
Deleted(p) == [kind |-> "Deleted", path |-> p]
Modified(p) == [kind |-> "Modified", path |-> p]

\* DiffTargetLoop as a comparison of the sizes alone would have it
DiffTargetLoopBySize(source_files, target_files, ordT) ==
    LET changed == SelectSeq(ordT, LAMBDA p :
                       ~(p \in DOMAIN source_files
                           /\ source_files[p].fsize = target_files[p].fsize))
    IN  [i \in 1..Len(changed) |->
            IF changed[i] \in DOMAIN source_files
            THEN Modified(changed[i]) ELSE Added(changed[i])]

\* the first loop of compare_directories over target_files, in the order ordT
DiffTargetLoop(source_files, target_files, ordT) ==
    LET changed == SelectSeq(ordT, LAMBDA p :
                       ~(p \in DOMAIN source_files /\ source_files[p] = target_files[p]))
    IN  [i \in 1..Len(changed) |->
            IF changed[i] \in DOMAIN source_files
            THEN Modified(changed[i]) ELSE Added(changed[i])]

\* the second loop of compare_directories over source_files.keys(), in the order ordS
DiffSourceLoop(source_files, target_files, ordS) ==
    LET gone == SelectSeq(ordS, LAMBDA p : p \notin DOMAIN target_files)
    IN  [i \in 1..Len(gone) |-> Deleted(gone[i])]

\* compare_directories; ordT and ordS are the iteration orders of the two HashMaps
compare_directories(source, target, ordT, ordS) ==
    LET source_files == scan_directory(source)
        target_files == scan_directory(target)
    IN  DiffTargetLoop(source_files, target_files, ordT)
            \o DiffSourceLoop(source_files, target_files, ordS)

-----------------------------------------------------------------------------
(* The manifest (Checksums) and the container *)

ModifiedChecksum(original, modified_hash) == [original |-> original, modified |-> modified_hash]

\* Checksums::new
NewChecksums == [added |-> EmptyMap, modified |-> EmptyMap, deleted |-> <<>>]

\* a .tgz: the manifest and the regular files under added/ and modified/
\* (metadata.toml and empty directories play no part in apply or merge)
Container(c, a, m) == [checksums |-> c, added |-> a, modified |-> m]

NoContainer == Container(NewChecksums, EmptyMap, EmptyMap)

\* what create_patch keeps while it walks the diffs: the manifest and the two
\* staging subtrees temp_dir/added and temp_dir/modified
NewStaging == [ok |-> TRUE, checksums |-> NewChecksums,
               added |-> TreeOf(EmptyMap), modified |-> TreeOf(EmptyMap)]

process_added_file(st, path, target) ==
    LET copied == copy_into(st.added, path, target.files[path])
    IN  IF ~copied.ok THEN [st EXCEPT !.ok = FALSE]
        ELSE [st EXCEPT !.added = copied.fs,
                        !.checksums.added =
                            Put(@, path, compute_file_hash(target.files[path]))]

process_deleted_file(st, path) ==
    [st EXCEPT !.checksums.deleted = Append(@, path)]

process_modified_file(st, path, source, target) ==
    LET copied == copy_into(st.modified, path, target.files[path])
    IN  IF ~copied.ok THEN [st EXCEPT !.ok = FALSE]
        ELSE [st EXCEPT !.modified = copied.fs,
                        !.checksums.modified =
                            Put(@, path,
                                ModifiedChecksum(compute_file_hash(source.files[path]),
                                                 compute_file_hash(target.files[path])))]

\* the `for diff in &diffs` loop of create_patch, from entry i on
RECURSIVE ProcessDiffs(_, _, _, _, _)
ProcessDiffs(st, ds, i, source, target) ==
    IF i > Len(ds) \/ ~st.ok THEN st
    ELSE LET d == ds[i]
             next == CASE d.kind = "Added" -> process_added_file(st, d.path, target)
                       [] d.kind = "Deleted" -> process_deleted_file(st, d.path)
                       [] d.kind = "Modified" ->
                              process_modified_file(st, d.path, source, target)
         IN  ProcessDiffs(next, ds, i + 1, source, target)

\* create_patch: written is FALSE when the diff is empty and no archive is written
create_patch(source, target, ordT, ordS) ==
    LET ds == compare_directories(source, target, ordT, ordS)
        st == ProcessDiffs(NewStaging, ds, 1, source, target)
    IN  IF ds = <<>> THEN [ok |-> TRUE, written |-> FALSE, tgz |-> NoContainer]
        ELSE [ok |-> st.ok, written |-> st.ok,
              tgz |-> Container(st.checksums, st.added.files, st.modified.files)]

-----------------------------------------------------------------------------
(* The merge engine: the manifest *)

\* acc, then the entries of s that acc does not hold yet, in order
RECURSIVE PushUnique(_, _, _)
PushUnique(acc, s, i) ==
    IF i > Len(s) THEN acc
    ELSE PushUnique(IF s[i] \in Range(acc) THEN acc ELSE Append(acc, s[i]), s, i + 1)

\* merge_added_files with the digest of the first patch kept for an addition
\* the second patch modifies
merge_added_files_stale(m, c1, c2, second_deleted) ==
    [m EXCEPT !.added =
        [p \in DOMAIN m.added \cup (DOMAIN c1.added \ second_deleted) |->
            IF p \in DOMAIN c1.added \ second_deleted
            THEN IF p \in DOMAIN c2.added THEN c2.added[p] ELSE c1.added[p]
            ELSE m.added[p]]]

\* merge_added_files: the additions of the first patch
merge_added_files(m, c1, c2, second_deleted) ==
    [m EXCEPT !.added =
        [p \in DOMAIN m.added \cup (DOMAIN c1.added \ second_deleted) |->
            IF p \in DOMAIN c1.added \ second_deleted
            THEN IF p \in DOMAIN c2.modified THEN c2.modified[p].modified
                 ELSE IF p \in DOMAIN c2.added THEN c2.added[p]
                 ELSE c1.added[p]
            ELSE m.added[p]]]

\* the loop of merge_checksums over checksums2.added
merge_second_added(m, c2) ==
    [m EXCEPT !.added =
        [p \in DOMAIN m.added \cup DOMAIN c2.added |->
            IF p \in DOMAIN m.added THEN m.added[p] ELSE c2.added[p]]]

\* merge_modified_files with the second patch's pair kept whole for a path both
\* patches modify
merge_modified_files_unchained(m, c1, c2, second_deleted, ord1) ==
    LET dropped == SelectSeq(ord1, LAMBDA p : p \in second_deleted)
        kept == DOMAIN c1.modified \ second_deleted
        first == [p \in DOMAIN m.modified \cup kept |->
                    IF p \in kept
                    THEN IF p \in DOMAIN c2.modified THEN c2.modified[p]
                         ELSE c1.modified[p]
                    ELSE m.modified[p]]
        fresh == {p \in DOMAIN c2.modified : p \notin DOMAIN first /\ p \notin DOMAIN m.added}
    IN  [m EXCEPT !.deleted = @ \o dropped,
                  !.modified = [p \in DOMAIN first \cup fresh |->
                                   IF p \in DOMAIN first THEN first[p] ELSE c2.modified[p]]]

\* merge_modified_files; ord1 is the iteration order of checksums1.modified
merge_modified_files(m, c1, c2, second_deleted, ord1) ==
    LET dropped == SelectSeq(ord1, LAMBDA p : p \in second_deleted)
        kept == DOMAIN c1.modified \ second_deleted
        first == [p \in DOMAIN m.modified \cup kept |->
                    IF p \in kept
                    THEN IF p \in DOMAIN c2.modified
                         THEN ModifiedChecksum(c1.modified[p].original,
                                               c2.modified[p].modified)
                         ELSE c1.modified[p]
                    ELSE m.modified[p]]
        fresh == {p \in DOMAIN c2.modified : p \notin DOMAIN first /\ p \notin DOMAIN m.added}
    IN  [m EXCEPT !.deleted = @ \o dropped,
                  !.modified = [p \in DOMAIN first \cup fresh |->
                                   IF p \in DOMAIN first THEN first[p] ELSE c2.modified[p]]]

\* merge_deleted_files
merge_deleted_files(m, c1, c2) ==
    LET from1 == SelectSeq(c1.deleted, LAMBDA p : p \notin DOMAIN c2.added)
        from2 == SelectSeq(c2.deleted, LAMBDA p : p \notin DOMAIN c1.added)
    IN  [m EXCEPT !.deleted = PushUnique(PushUnique(@, from1, 1), from2, 1)]

\* merge_checksums
merge_checksums(c1, c2, ord1) ==
    LET second_deleted == Range(c2.deleted)
        m1 == merge_added_files(NewChecksums, c1, c2, second_deleted)
        m2 == merge_second_added(m1, c2)
        m3 == merge_modified_files(m2, c1, c2, second_deleted, ord1)
    IN  merge_deleted_files(m3, c1, c2)

-----------------------------------------------------------------------------
(* The merge engine: the bodies *)

\* find_added_source without the look into second/modified
find_added_source_no_fallback(first, second, path) ==
    IF Exists(TreeOf(second.added), path) THEN TreeOf(second.added)
    ELSE TreeOf(first.added)

\* find_added_source: the staged tree and whether the body exists there; a
\* directory of that name counts as existing and cannot be copied
find_added_source(first, second, path) ==
    IF Exists(TreeOf(second.added), path) THEN TreeOf(second.added)
    ELSE IF Exists(TreeOf(second.modified), path) THEN TreeOf(second.modified)
    ELSE TreeOf(first.added)

\* the source of a modified body: second/modified when it exists, else first/modified
find_modified_source(first, second, path) ==
    IF Exists(TreeOf(second.modified), path) THEN TreeOf(second.modified)
    ELSE TreeOf(first.modified)

\* one round of a copy loop of copy_merged_files: the parents of dest are made,
\* then the source is copied when it exists
copy_merged_file(dest, src, path) ==
    LET made == create_dir_all(dest, Parent(path))
    IN  IF ~made.ok THEN made
        ELSE IF ~Exists(src, path) THEN made
        ELSE IF IsDir(src, path) THEN [ok |-> FALSE, fs |-> made.fs]
        ELSE fs_copy(made.fs, path, src.files[path])

RECURSIVE CopyAdded(_, _, _, _, _)
CopyAdded(dest, first, second, ord, i) ==
    IF i > Len(ord) \/ ~dest.ok THEN dest
    ELSE CopyAdded(copy_merged_file(dest.fs, find_added_source(first, second, ord[i]), ord[i]),
                   first, second, ord, i + 1)

RECURSIVE CopyModified(_, _, _, _, _)
CopyModified(dest, first, second, ord, i) ==
    IF i > Len(ord) \/ ~dest.ok THEN dest
    ELSE CopyModified(copy_merged_file(dest.fs, find_modified_source(first, second, ord[i]),
                                       ord[i]),
                      first, second, ord, i + 1)

\* merge_patches of the containers first and second; ord1, ordA and ordM are the
\* iteration orders of checksums1.modified, merged.added and merged.modified
merge_patches(first, second, ord1, ordA, ordM) ==
    LET merged_checksums == merge_checksums(first.checksums, second.checksums, ord1)
        start == [ok |-> TRUE, fs |-> TreeOf(EmptyMap)]
        a == CopyAdded(start, first, second, ordA, 1)
        m == CopyModified(start, first, second, ordM, 1)
    IN  [ok |-> a.ok /\ m.ok,
         tgz |-> Container(merged_checksums, a.fs.files, m.fs.files)]

-----------------------------------------------------------------------------
(* The apply engine, one step of apply_patch at a time *)

\* a staging directory: whether it exists, what its checksums.toml is ("none" when
\* there is no such file, "garbage" when it does not parse, "toml" when it holds
\* content.checksums) and the regular files under added/ and modified/
NoTempDir == [exists |-> FALSE, manifest |-> "none", content |-> NoContainer]

\* dft_append_<pid> with its directories first, second and merged
NoAppendDir ==
    [exists |-> FALSE, first |-> NoTempDir, second |-> NoTempDir, merged |-> NoTempDir]

\* no file at the output path
NoOutput == [exists |-> FALSE, tgz |-> NoContainer]

\* the process is in no operation
NoCall == [op |-> "none"]

\* the forms of the file at patch_path: a container as create_tar_gz writes it,
\* a file that is no gzip stream, a stream that fails after its members were
\* unpacked, a container without checksums.toml, one whose checksums.toml is
\* not a manifest
ArchiveForms == {"tgz", "corrupt", "truncated", "no_manifest", "bad_manifest"}

\* the files of b unpacked over the files a
Overlay(a, b) ==
    [p \in DOMAIN a \cup DOMAIN b |-> IF p \in DOMAIN b THEN b[p] ELSE a[p]]

\* extract_patch into the directory dir, which exists: Archive::unpack writes the
\* members over what the directory holds and removes nothing
extract_patch(dir, tgz, form) ==
    LET added == Overlay(dir.content.added, tgz.added)
        modified == Overlay(dir.content.modified, tgz.modified)
        unpacked ==
            CASE form \in {"tgz", "truncated"} ->
                    [exists |-> TRUE, manifest |-> "toml",
                     content |-> Container(tgz.checksums, added, modified)]
              [] form = "bad_manifest" ->
                    [exists |-> TRUE, manifest |-> "garbage",
                     content |-> Container(NewChecksums, added, modified)]
              [] form = "no_manifest" ->
                    [exists |-> TRUE, manifest |-> dir.manifest,
                     content |-> Container(dir.content.checksums, added, modified)]
    IN  IF form = "corrupt" \/ ~ValidFiles(added) \/ ~ValidFiles(modified)
        THEN [ok |-> FALSE, dir |-> dir]
        ELSE [ok |-> form # "truncated", dir |-> unpacked]

\* load_checksums from the staging directory
load_checksums(dir) ==
    IF dir.manifest = "toml" THEN [ok |-> TRUE, checksums |-> dir.content.checksums]
    ELSE [ok |-> FALSE, checksums |-> NewChecksums]

NoTodo == [deleted |-> <<>>, added |-> {}, modified |-> {}]

\* the phases with apply_additions called before apply_deletions
PhaseAfterAdditionsFirst(td) ==
    IF td.added # {} THEN "additions"
    ELSE IF td.deleted # <<>> THEN "deletions"
    ELSE IF td.modified # {} THEN "modifications"
    ELSE "cleanup"

\* the order of the phases of apply_patch: apply_deletions, then apply_additions,
\* then apply_modifications, then the removal of the staging directory
PhaseAfter(td) ==
    IF td.deleted # <<>> THEN "deletions"
    ELSE IF td.added # {} THEN "additions"
    ELSE IF td.modified # {} THEN "modifications"
    ELSE "cleanup"

\* Path::join: an absolute path string replaces the directory it is joined to
join(dir, path_str) ==
    IF path_str # <<>> /\ Head(path_str) = Slash THEN Tail(path_str) ELSE dir \o path_str

\* the file or directory of the tree t that the path `todo_segs` names from the
\* directory `here`, as the system resolves it: every step is taken from a
\* directory, ".." steps to the parent and the root is its own parent
RECURSIVE lookup(_, _, _)
lookup(t, here, todo_segs) ==
    IF todo_segs = <<>> THEN [found |-> Exists(t, here), path |-> here]
    ELSE IF ~IsDir(t, here) THEN [found |-> FALSE, path |-> here]
    ELSE IF Head(todo_segs) = DotDot
    THEN lookup(t, IF here = Root THEN Root ELSE Parent(here), Tail(todo_segs))
    ELSE lookup(t, Append(here, Head(todo_segs)), Tail(todo_segs))

\* the tree t as seen from its directory `at`
subtree(t, at) ==
    LET below(S) == {SubSeq(q, Len(at) + 1, Len(q)) :
                        q \in {x \in S : Len(x) >= Len(at) /\ SubSeq(x, 1, Len(at)) = at}}
    IN  IF at = Root THEN t
        ELSE [files |-> [p \in below(DOMAIN t.files) |-> t.files[at \o p]],
              dirs |-> below(t.dirs)]

\* the tree t with what lies at and below its directory `at` replaced by sub
graft(t, at, sub) ==
    LET outside(S) == {x \in S : Len(x) < Len(at) \/ SubSeq(x, 1, Len(at)) # at}
        kept == outside(DOMAIN t.files)
        put == {at \o p : p \in DOMAIN sub.files}
    IN  IF at = Root THEN sub
        ELSE [files |-> [x \in kept \cup put |->
                            IF x \in kept THEN t.files[x]
                            ELSE sub.files[SubSeq(x, Len(at) + 1, Len(x))]],
              dirs |-> outside(t.dirs) \cup {at \o p : p \in sub.dirs}]

\* one round of the loop of apply_deletions
apply_deletion(t, p) ==
    IF ~Exists(t, p) THEN [ok |-> TRUE, fs |-> t]
    ELSE LET removed == remove_file(t, p)
         IN  IF ~removed.ok THEN removed
             ELSE [ok |-> TRUE, fs |-> remove_dir(removed.fs, Parent(p))]

\* one round of the loop of apply_additions
apply_addition(t, p, body) == copy_into(t, p, body)

\* verify_original_checksum raising the mismatch instead of printing a warning
verify_original_checksum_strict(t, p, c) ==
    IF p \in DOMAIN c.modified /\ Exists(t, p)
    THEN IF IsDir(t, p) THEN [ok |-> FALSE, warn |-> FALSE]
         ELSE [ok |-> compute_file_hash(t.files[p]) = c.modified[p].original,
               warn |-> FALSE]
    ELSE [ok |-> TRUE, warn |-> FALSE]

\* verify_original_checksum: an error when the hash cannot be computed (the target
\* is a directory), a warning when the digest is not the recorded original
verify_original_checksum(t, p, c) ==
    IF p \in DOMAIN c.modified /\ Exists(t, p)
    THEN IF IsDir(t, p) THEN [ok |-> FALSE, warn |-> FALSE]
         ELSE [ok |-> TRUE,
               warn |-> compute_file_hash(t.files[p]) # c.modified[p].original]
    ELSE [ok |-> TRUE, warn |-> FALSE]

\* one round of the loop of apply_modifications
apply_modification(t, p, body, c) ==
    LET verified == verify_original_checksum(t, p, c)
        copied == copy_into(t, p, body)
    IN  IF ~verified.ok THEN [ok |-> FALSE, warn |-> FALSE, fs |-> t]
        ELSE [ok |-> copied.ok, warn |-> verified.warn, fs |-> copied.fs]

\* create_dir_all(temp_dir), extract_patch, load_checksums; the walks of
\* apply_additions and apply_modifications will yield what the staging holds
ApplyStart ==
    /\ pc = "ready"
    /\ LET extracted == extract_patch([temp_dir EXCEPT !.exists = TRUE], patch, archive)
           loaded == load_checksums(extracted.dir)
       IN  /\ temp_dir' = extracted.dir
           /\ IF extracted.ok /\ loaded.ok
              THEN /\ checksums' = loaded.checksums
                   /\ todo' = [deleted |-> loaded.checksums.deleted,
                               added |-> DOMAIN extracted.dir.content.added,
                               modified |-> DOMAIN extracted.dir.content.modified]
                   /\ pc' = PhaseAfter(todo')
              ELSE /\ checksums' = NewChecksums
                   /\ todo' = NoTodo
                   /\ pc' = "failed"
    /\ UNCHANGED <<base, latest, current, hops, target_dir, patch, log, warned,
                   diffs, checksums1, checksums2, merged>>
    /\ UNCHANGED rest

\* apply_deletions, the next entry of checksums.deleted
ApplyDeletion ==
    /\ pc = "deletions"
    /\ LET p == Head(todo.deleted)
           target_path == lookup(target_dir, Root, join(target_at, p))
           r == IF target_path.found THEN apply_deletion(target_dir, target_path.path)
                ELSE [ok |-> TRUE, fs |-> target_dir]
       IN  /\ target_dir' = r.fs
           /\ todo' = [todo EXCEPT !.deleted = Tail(@)]
           /\ log' = IF r.ok /\ target_path.found
                     THEN Append(log, <<"delete", p>>) ELSE log
           /\ pc' = IF r.ok THEN PhaseAfter(todo') ELSE "failed"
    /\ UNCHANGED <<base, latest, current, hops, patch, temp_dir, checksums, warned,
                   diffs, checksums1, checksums2, merged>>
    /\ UNCHANGED rest

\* apply_additions, the next regular file WalkDir yields under temp_dir/added
ApplyAddition ==
    /\ pc = "additions"
    /\ \E p \in todo.added :
          LET r == apply_addition(subtree(target_dir, target_at), p,
                                  temp_dir.content.added[p])
          IN  /\ target_dir' = graft(target_dir, target_at, r.fs)
              /\ todo' = [todo EXCEPT !.added = @ \ {p}]
              /\ log' = IF r.ok THEN Append(log, <<"add", p>>) ELSE log
              /\ pc' = IF r.ok THEN PhaseAfter(todo') ELSE "failed"
    /\ UNCHANGED <<base, latest, current, hops, patch, temp_dir, checksums, warned,
                   diffs, checksums1, checksums2, merged>>
    /\ UNCHANGED rest

\* apply_modifications, the next regular file WalkDir yields under temp_dir/modified
ApplyModification ==
    /\ pc = "modifications"
    /\ \E p \in todo.modified :
          LET r == apply_modification(subtree(target_dir, target_at), p,
                                      temp_dir.content.modified[p], checksums)
          IN  /\ target_dir' = graft(target_dir, target_at, r.fs)
              /\ todo' = [todo EXCEPT !.modified = @ \ {p}]
              /\ log' = IF r.ok THEN Append(log, <<"modify", p>>) ELSE log
              /\ warned' = IF r.warn THEN warned \cup {p} ELSE warned
              /\ pc' = IF r.ok THEN PhaseAfter(todo') ELSE "failed"
    /\ UNCHANGED <<base, latest, current, hops, patch, temp_dir, checksums,
                   diffs, checksums1, checksums2, merged>>
    /\ UNCHANGED rest

\* fs::remove_dir_all(temp_dir) and Ok(())
ApplyCleanup ==
    /\ pc = "cleanup"
    /\ temp_dir' = NoTempDir
    /\ pc' = "done"
    /\ UNCHANGED <<base, latest, current, hops, target_dir, patch, checksums, todo,
                   log, warned, diffs, checksums1, checksums2, merged>>
    /\ UNCHANGED rest

ApplyStep ==
    ApplyStart \/ ApplyDeletion \/ ApplyAddition \/ ApplyModification \/ ApplyCleanup

\* the values of the variables an operation does not use
IdleChain ==
    /\ base = TreeOf(EmptyMap)
    /\ latest = TreeOf(EmptyMap)
    /\ current = NoContainer
    /\ hops = 0

IdleApply ==
    /\ target_dir = TreeOf(EmptyMap)
    /\ patch = NoContainer
    /\ temp_dir = NoTempDir
    /\ checksums = NewChecksums
    /\ todo = NoTodo
    /\ log = <<>>
    /\ warned = {}

IdleDiff == diffs = <<>>

IdleMerge ==
    /\ checksums1 = NewChecksums
    /\ checksums2 = NewChecksums
    /\ merged = NewChecksums

IdleHex == hex_str = <<>> /\ hash_result = [kind |-> "none"]

IdleText == file_path = [extension |-> "", readable |-> FALSE, bytes |-> <<>>] /\ is_text = FALSE

IdleCall == archive = "tgz" /\ target_at = Root /\ runs = 0

IdleProcess ==
    /\ call = NoCall
    /\ result = "none"
    /\ output = NoOutput
    /\ dft_patch = NoTempDir
    /\ dft_append = NoAppendDir
    /\ dft_show = NoTempDir

\* no two invocations of apply_patch
IdleOverlap == invocation = <<>> /\ serialised = TRUE /\ patch_lock = 0

IdleRest == IdleHex /\ IdleText /\ IdleCall /\ IdleProcess /\ IdleOverlap

-----------------------------------------------------------------------------
(* apply_patch of any container on any tree *)

\* the sequences over S of at most n entries
SeqsUpTo(S, n) == UNION {[1..k -> S] : k \in 0..n}

\* the containers handed to apply_patch: at most MaxBodies staged bodies, each
\* entry of `added` and `modified` has a staged body with the recorded digest
\* (`added` lists some of the bodies under added/, `modified` some of those under
\* modified/ with any original digest), `deleted` is any list of at most
\* MaxDeleted paths
IsApplyContainer(k) ==
    \E a \in FileMaps, m \in FileMaps :
        /\ Cardinality(DOMAIN a) + Cardinality(DOMAIN m) <= MaxBodies
        /\ \E ka \in SUBSET DOMAIN a, orig \in PartialMaps(DOMAIN m, Digests),
              d \in SeqsUpTo(Paths, MaxDeleted) :
                k = Container([added |-> [p \in ka |-> compute_file_hash(a[p])],
                               modified |-> [p \in DOMAIN orig |->
                                   ModifiedChecksum(orig[p], compute_file_hash(m[p]))],
                               deleted |-> d],
                              a, m)

InitApply ==
    /\ IdleDiff /\ IdleMerge /\ IdleRest
    /\ target_dir \in Trees
    /\ base = target_dir
    /\ latest = TreeOf(EmptyMap)
    /\ current = NoContainer
    /\ hops = 0
    /\ IsApplyContainer(patch)
    /\ temp_dir = NoTempDir
    /\ checksums = NewChecksums
    /\ todo = NoTodo
    /\ log = <<>>
    /\ warned = {}
    /\ pc = "ready"

SpecApply == InitApply /\ [][ApplyStep]_vars

-----------------------------------------------------------------------------
(* compare_directories of any two trees *)

InitDiff ==
    /\ base \in Trees
    /\ latest \in Trees
    /\ current = NoContainer
    /\ hops = 0
    /\ IdleApply /\ IdleDiff /\ IdleMerge /\ IdleRest
    /\ pc = "compare"

\* compare_directories(base, latest)
CompareDirectories ==
    /\ pc = "compare"
    /\ \E ordT \in Perms(DOMAIN scan_directory(latest)),
          ordS \in Perms(DOMAIN scan_directory(base)) :
            diffs' = compare_directories(base, latest, ordT, ordS)
    /\ pc' = "compared"
    /\ UNCHANGED <<base, latest, current, hops, target_dir, patch, temp_dir,
                   checksums, todo, log, warned, checksums1, checksums2, merged>>
    /\ UNCHANGED rest

SpecDiff == InitDiff /\ [][CompareDirectories]_vars

-----------------------------------------------------------------------------
(* merge_checksums of any two manifests over the flat paths *)

\* what one manifest says of one path: nothing, or exactly one action
PathActions ==
    {[kind |-> "absent"], [kind |-> "Deleted"]}
        \cup {[kind |-> "Added", hash |-> h] : h \in Digests}
        \cup {[kind |-> "Modified", original |-> o, modified |-> m] :
                 o \in Digests, m \in Digests}

\* the manifest that records the action act[p] for every path p, its deleted
\* list in the order ord
ManifestOf(act, ord) ==
    [added |-> [p \in {q \in DOMAIN act : act[q].kind = "Added"} |-> act[p].hash],
     modified |-> [p \in {q \in DOMAIN act : act[q].kind = "Modified"} |->
                      ModifiedChecksum(act[p].original, act[p].modified)],
     deleted |-> ord]

IsFlatManifest(c) ==
    \E act \in [FlatPaths -> PathActions] :
        \E ord \in Perms({q \in FlatPaths : act[q].kind = "Deleted"}) :
            c = ManifestOf(act, ord)

\* the action the manifest c records for the path p
ActionOf(c, p) ==
    IF p \in DOMAIN c.added THEN "Added"
    ELSE IF p \in DOMAIN c.modified THEN "Modified"
    ELSE IF p \in Range(c.deleted) THEN "Deleted"
    ELSE "absent"

InitMerge ==
    /\ IdleChain /\ IdleApply /\ IdleDiff /\ IdleRest
    /\ IsFlatManifest(checksums1)
    /\ IsFlatManifest(checksums2)
    /\ merged = NewChecksums
    /\ pc = "merge"

\* merge_checksums(checksums1, checksums2)
MergeChecksums ==
    /\ pc = "merge"
    /\ \E ord1 \in Perms(DOMAIN checksums1.modified) :
          merged' = merge_checksums(checksums1, checksums2, ord1)
    /\ pc' = "merged"
    /\ UNCHANGED <<base, latest, current, hops, target_dir, patch, temp_dir,
                   checksums, todo, log, warned, diffs, checksums1, checksums2>>
    /\ UNCHANGED rest

SpecMerge == InitMerge /\ [][MergeChecksums]_vars

-----------------------------------------------------------------------------
(* The updater: releases S0 -> S1 -> ... -> Sn, their patches folded into one   *)
(* container by merge_patches, and that container applied to a copy of S0      *)

\* the test helper copy_dir into a fresh directory: the regular files only
copy_dir(t) == TreeOf(t.files)

InitChain ==
    /\ base \in Trees
    /\ latest = base
    /\ current = NoContainer
    /\ hops = 0
    /\ IdleApply /\ IdleDiff /\ IdleMerge /\ IdleRest
    /\ pc = "idle"

\* a new release t: create_patch(latest, t) and, from the second patch on,
\* merge_patches(current, patch) as create_merge_tgz folds it
Release ==
    /\ pc = "idle"
    /\ hops < MaxHops
    /\ \E t \in Trees :
         \E ordT \in Perms(DOMAIN scan_directory(t)),
            ordS \in Perms(DOMAIN scan_directory(latest)) :
            LET created == create_patch(latest, t, ordT, ordS)
            IN  /\ created.written
                /\ latest' = t
                /\ hops' = hops + 1
                /\ IF hops = 0
                   THEN current' = created.tgz /\ pc' = "idle"
                   ELSE \E ord1 \in Perms(DOMAIN current.checksums.modified) :
                          LET mc == merge_checksums(current.checksums,
                                                    created.tgz.checksums, ord1)
                          IN \E ordA \in Perms(DOMAIN mc.added),
                                ordM \in Perms(DOMAIN mc.modified) :
                               LET out == merge_patches(current, created.tgz,
                                                        ord1, ordA, ordM)
                               IN  /\ current' = out.tgz
                                   /\ pc' = IF out.ok THEN "idle" ELSE "failed"
    /\ UNCHANGED <<base, target_dir, patch, temp_dir, checksums, todo, log, warned,
                   diffs, checksums1, checksums2, merged>>
    /\ UNCHANGED rest

\* the folded container is handed to apply_patch with a copy of S0 as its target
Install ==
    /\ pc = "idle"
    /\ hops >= 1
    /\ target_dir' = copy_dir(base)
    /\ patch' = current
    /\ pc' = "ready"
    /\ UNCHANGED <<base, latest, current, hops, temp_dir, checksums, todo, log,
                   warned, diffs, checksums1, checksums2, merged>>
    /\ UNCHANGED rest

NextChain == Release \/ Install \/ ApplyStep

SpecChain == InitChain /\ [][NextChain]_vars

-----------------------------------------------------------------------------
(* apply_patch on a target directory that has a parent: target_dir holds the  *)
(* tree of the parent, the target directory is its entry TargetDir, and the   *)
(* regular file OutsideFile lies next to the target directory                 *)

TargetDir == <<1>>

OutsideFile == <<2>>

\* the trees around the target directory: any files at the flat paths inside it,
\* and the file next to it or not
Worlds ==
    {[files |-> f, dirs |-> {Root, TargetDir}] :
        f \in UNION {[S -> Contents] :
                        S \in SUBSET ({TargetDir \o p : p \in FlatPaths} \cup {OutsideFile})}}

\* the path strings a checksums.toml may hold: one or two segments, each a name
\* or "..", relative or with a leading "/"
PathStrings ==
    LET relative == UNION {[1..n -> {DotDot, 1, 2}] : n \in 1..2}
    IN  relative \cup {<<Slash>> \o e : e \in relative}

\* true of the path string e when it is relative and has no ".." segment
IsConfined(e) == \A i \in 1..Len(e) : e[i] \notin {DotDot, Slash}

\* the containers handed to apply_patch: at most one staged body, at a flat
\* path and listed or not, and at most MaxDeleted - 1 entries of deleted, any
\* path strings
IsPathStringContainer(k) ==
    \E a \in PartialMaps(FlatPaths, Contents), m \in PartialMaps(FlatPaths, Contents) :
        /\ Cardinality(DOMAIN a) + Cardinality(DOMAIN m) <= 1
        /\ \E ka \in SUBSET DOMAIN a, orig \in PartialMaps(DOMAIN m, Digests),
              d \in SeqsUpTo(PathStrings, MaxDeleted - 1) :
                k = Container([added |-> [p \in ka |-> compute_file_hash(a[p])],
                               modified |-> [p \in DOMAIN orig |->
                                   ModifiedChecksum(orig[p], compute_file_hash(m[p]))],
                               deleted |-> d],
                              a, m)

InitPathStrings ==
    /\ IdleDiff /\ IdleMerge /\ IdleHex /\ IdleText /\ IdleProcess /\ IdleOverlap
    /\ target_dir \in Worlds
    /\ target_at = TargetDir
    /\ base = target_dir
    /\ latest = TreeOf(EmptyMap)
    /\ current = NoContainer
    /\ hops = 0
    /\ IsPathStringContainer(patch)
    /\ archive = "tgz"
    /\ runs = 0
    /\ temp_dir = NoTempDir
    /\ checksums = NewChecksums
    /\ todo = NoTodo
    /\ log = <<>>
    /\ warned = {}
    /\ pc = "ready"

SpecPathStrings == InitPathStrings /\ [][ApplyStep]_vars

-----------------------------------------------------------------------------
(* create_patch, merge_patches and show_patch as one process runs them: each  *)
(* works in its staging directory, which is whatever an earlier run left      *)

\* create_patch without the early return on an empty diff
create_patch_in_eager(dir, source, target, writable, ordT, ordS) ==
    LET ds == compare_directories(source, target, ordT, ordS)
        st == ProcessDiffs([ok |-> TRUE, checksums |-> NewChecksums,
                            added |-> TreeOf(dir.content.added),
                            modified |-> TreeOf(dir.content.modified)],
                           ds, 1, source, target)
        staged == Container(st.checksums, st.added.files, st.modified.files)
    IN  IF ~st.ok
        THEN [ok |-> FALSE, written |-> FALSE, tgz |-> NoContainer,
              dir |-> [exists |-> TRUE, manifest |-> dir.manifest,
                       content |-> Container(dir.content.checksums,
                                             st.added.files, st.modified.files)]]
        ELSE IF ~writable
        THEN [ok |-> FALSE, written |-> FALSE, tgz |-> NoContainer,
              dir |-> [exists |-> TRUE, manifest |-> "toml", content |-> staged]]
        ELSE [ok |-> TRUE, dir |-> NoTempDir, written |-> TRUE, tgz |-> staged]

\* create_patch in the staging directory dir; `writable` tells whether the file
\* at the output path can be created
create_patch_in(dir, source, target, writable, ordT, ordS) ==
    LET ds == compare_directories(source, target, ordT, ordS)
        st == ProcessDiffs([ok |-> TRUE, checksums |-> NewChecksums,
                            added |-> TreeOf(dir.content.added),
                            modified |-> TreeOf(dir.content.modified)],
                           ds, 1, source, target)
        staged == Container(st.checksums, st.added.files, st.modified.files)
    IN  IF ds = <<>> THEN [ok |-> TRUE, dir |-> dir, written |-> FALSE, tgz |-> NoContainer]
        ELSE IF ~st.ok
        THEN [ok |-> FALSE, written |-> FALSE, tgz |-> NoContainer,
              dir |-> [exists |-> TRUE, manifest |-> dir.manifest,
                       content |-> Container(dir.content.checksums,
                                             st.added.files, st.modified.files)]]
        ELSE IF ~writable
        THEN [ok |-> FALSE, written |-> FALSE, tgz |-> NoContainer,
              dir |-> [exists |-> TRUE, manifest |-> "toml", content |-> staged]]
        ELSE [ok |-> TRUE, dir |-> NoTempDir, written |-> TRUE, tgz |-> staged]

\* merge_patches in the staging directory dir, of the archives a1 and a2
merge_patches_in(dir, a1, a2, writable, ord1, ordA, ordM) ==
    LET e1 == extract_patch([dir.first EXCEPT !.exists = TRUE], a1.tgz, a1.form)
        e2 == extract_patch([dir.second EXCEPT !.exists = TRUE], a2.tgz, a2.form)
        l1 == load_checksums(e1.dir)
        l2 == load_checksums(e2.dir)
        merged_checksums == merge_checksums(l1.checksums, l2.checksums, ord1)
        a == CopyAdded([ok |-> TRUE, fs |-> TreeOf(dir.merged.content.added)],
                       e1.dir.content, e2.dir.content, ordA, 1)
        m == CopyModified([ok |-> TRUE, fs |-> TreeOf(dir.merged.content.modified)],
                          e1.dir.content, e2.dir.content, ordM, 1)
        made == [exists |-> TRUE, first |-> [dir.first EXCEPT !.exists = TRUE],
                 second |-> [dir.second EXCEPT !.exists = TRUE],
                 merged |-> [dir.merged EXCEPT !.exists = TRUE]]
        failed(d) == [ok |-> FALSE, dir |-> d, written |-> FALSE, tgz |-> NoContainer]
        copied(added, modified) ==
            [made EXCEPT !.first = e1.dir, !.second = e2.dir,
                         !.merged.content.added = added,
                         !.merged.content.modified = modified]
        written == Container(merged_checksums, a.fs.files, m.fs.files)
    IN  IF ~e1.ok THEN failed([made EXCEPT !.first = e1.dir])
        ELSE IF ~e2.ok \/ ~l1.ok \/ ~l2.ok
        THEN failed([made EXCEPT !.first = e1.dir, !.second = e2.dir])
        ELSE IF ~a.ok THEN failed(copied(a.fs.files, dir.merged.content.modified))
        ELSE IF ~m.ok THEN failed(copied(a.fs.files, m.fs.files))
        ELSE IF ~writable
        THEN failed([copied(a.fs.files, m.fs.files) EXCEPT
                        !.merged.manifest = "toml",
                        !.merged.content.checksums = merged_checksums])
        ELSE [ok |-> TRUE, dir |-> NoAppendDir, written |-> TRUE, tgz |-> written]

\* show_patch in the staging directory dir; preview_fails tells whether
\* read_to_string fails on a file show_text_file_preview takes for text
show_patch_keep(dir, a, preview_fails) ==
    LET extracted == extract_patch([dir EXCEPT !.exists = TRUE], a.tgz, a.form)
    IN  [ok |-> extracted.ok /\ load_checksums(extracted.dir).ok, dir |-> extracted.dir]

show_patch(dir, a, preview_fails) ==
    LET extracted == extract_patch([dir EXCEPT !.exists = TRUE], a.tgz, a.form)
        loaded == load_checksums(extracted.dir)
        previewed == DOMAIN loaded.checksums.modified
                        \cap DOMAIN extracted.dir.content.modified
    IN  IF ~extracted.ok \/ ~loaded.ok THEN [ok |-> FALSE, dir |-> extracted.dir]
        ELSE IF preview_fails /\ previewed # {} THEN [ok |-> FALSE, dir |-> extracted.dir]
        ELSE [ok |-> TRUE, dir |-> NoTempDir]

\* the paths of the files the operations of the process deal with: 1 and 1/1
ProcessPaths == {Spine(1), Spine(2)}

ProcessFileMaps == {f \in PartialMaps(ProcessPaths, Contents) : ValidFiles(f)}

ProcessTrees == {TreeOf(f) : f \in ProcessFileMaps}

\* the paths of the files the archives of the process stage or delete
StagedPaths == {Spine(1)}

\* the containers: at most MaxStaged bodies, listed by the manifest or not, and
\* at most MaxStaged entries of deleted
ProcessContainers ==
    UNION {UNION {{Container([added |-> [p \in ka |-> compute_file_hash(a[p])],
                              modified |-> [p \in DOMAIN orig |->
                                  ModifiedChecksum(orig[p], compute_file_hash(m[p]))],
                              deleted |-> d],
                             a, m) :
                      ka \in SUBSET DOMAIN a, orig \in PartialMaps(DOMAIN m, Digests),
                      d \in SeqsUpTo(StagedPaths, MaxStaged)} :
                  a \in {x \in PartialMaps(StagedPaths, Contents) :
                            Cardinality(DOMAIN x) + Cardinality(DOMAIN m) <= MaxStaged}} :
              m \in PartialMaps(StagedPaths, Contents)}

\* the files at patch_path: a container in one of the forms; without a manifest
\* that parses only the bodies matter, and nothing does in a corrupt file
ProcessArchives ==
    {[form |-> f, tgz |-> k] : f \in {"tgz", "truncated"}, k \in ProcessContainers}
        \cup {[form |-> f, tgz |-> k] :
                 f \in {"no_manifest", "bad_manifest"},
                 k \in {x \in ProcessContainers : x.checksums = NewChecksums}}
        \cup {[form |-> "corrupt", tgz |-> NoContainer]}

\* the archives handed to merge_patches: those that delete nothing and stage
\* at most the content 1, as written by create_tar_gz, without a manifest or
\* corrupt
MergeArchives ==
    {a \in ProcessArchives :
        /\ a.tgz.checksums.deleted = <<>>
        /\ a.form \in {"tgz", "no_manifest", "corrupt"}
        /\ \A p \in DOMAIN a.tgz.added : a.tgz.added[p] = 1
        /\ \A p \in DOMAIN a.tgz.modified : a.tgz.modified[p] = 1}

\* the file at the output path of create_patch before the call: none, or one
ExistingOutput == [exists |-> TRUE, tgz |-> NoContainer]

Calls ==
    {[op |-> "apply", target_dir |-> t, patch |-> a] :
        t \in ProcessTrees, a \in ProcessArchives}
        \cup {[op |-> "show", patch |-> a, preview_fails |-> b] :
                 a \in ProcessArchives, b \in BOOLEAN}
        \cup {[op |-> "merge", first |-> a1, second |-> a2, writable |-> w] :
                 a1 \in MergeArchives, a2 \in MergeArchives, w \in BOOLEAN}
        \cup {[op |-> "create", source |-> t1, target |-> t2, writable |-> w] :
                 t1 \in ProcessTrees, t2 \in ProcessTrees, w \in BOOLEAN}

InitProcess ==
    /\ IdleDiff /\ IdleMerge /\ IdleHex /\ IdleText /\ IdleCall /\ IdleProcess /\ IdleOverlap
    /\ target_dir = TreeOf(EmptyMap)
    /\ base = target_dir
    /\ latest = TreeOf(EmptyMap)
    /\ current = NoContainer
    /\ hops = 0
    /\ patch = NoContainer
    /\ temp_dir = NoTempDir
    /\ checksums = NewChecksums
    /\ todo = NoTodo
    /\ log = <<>>
    /\ warned = {}
    /\ pc = "idle"

\* the process enters an operation with its arguments: apply_patch gets a
\* directory and an archive, create_patch an output path with or without a file
Call ==
    /\ pc = "idle"
    /\ runs < MaxRuns
    /\ runs' = runs + 1
    /\ \E c \in Calls :
          /\ call' = c
          /\ IF c.op = "apply"
             THEN /\ patch' = c.patch.tgz /\ archive' = c.patch.form
                  /\ target_dir' = c.target_dir /\ base' = c.target_dir
                  /\ pc' = "ready"
             ELSE /\ patch' = patch /\ archive' = archive
                  /\ target_dir' = target_dir /\ base' = base
                  /\ pc' = "called"
          /\ IF c.op = "create"
             THEN output' \in {NoOutput, ExistingOutput}
             ELSE output' = NoOutput
    /\ UNCHANGED <<latest, current, hops, temp_dir, checksums, todo,
                   log, warned, diffs, checksums1, checksums2, merged>>
    /\ UNCHANGED <<hexVars, textVars, overlapVars, target_at, result, dft_patch, dft_append,
                   dft_show>>

\* create_patch(call.source, call.target, output)
CreatePatch ==
    /\ pc = "called"
    /\ call.op = "create"
    /\ \E ordT \in Perms(DOMAIN scan_directory(call.target)),
          ordS \in Perms(DOMAIN scan_directory(call.source)) :
          LET r == create_patch_in(dft_patch, call.source, call.target, call.writable,
                                   ordT, ordS)
          IN  /\ dft_patch' = r.dir
              /\ output' = IF r.written THEN [exists |-> TRUE, tgz |-> r.tgz] ELSE output
              /\ result' = IF r.ok THEN "Ok" ELSE "Err"
    /\ pc' = "returned"
    /\ UNCHANGED <<patchVars, hexVars, textVars, overlapVars, callVars, call, dft_append, dft_show>>

\* merge_patches(call.first, call.second, output)
MergePatches ==
    /\ pc = "called"
    /\ call.op = "merge"
    /\ \E ord1 \in Perms(DOMAIN load_checksums(
                      extract_patch([dft_append.first EXCEPT !.exists = TRUE],
                                    call.first.tgz, call.first.form).dir).checksums.modified) :
          LET e1 == extract_patch([dft_append.first EXCEPT !.exists = TRUE],
                                  call.first.tgz, call.first.form)
              e2 == extract_patch([dft_append.second EXCEPT !.exists = TRUE],
                                  call.second.tgz, call.second.form)
              mc == merge_checksums(load_checksums(e1.dir).checksums,
                                    load_checksums(e2.dir).checksums, ord1)
          IN  \E ordA \in Perms(DOMAIN mc.added), ordM \in Perms(DOMAIN mc.modified) :
                 LET r == merge_patches_in(dft_append, call.first, call.second,
                                           call.writable, ord1, ordA, ordM)
                 IN  /\ dft_append' = r.dir
                     /\ output' = IF r.written THEN [exists |-> TRUE, tgz |-> r.tgz]
                                  ELSE output
                     /\ result' = IF r.ok THEN "Ok" ELSE "Err"
    /\ pc' = "returned"
    /\ UNCHANGED <<patchVars, hexVars, textVars, overlapVars, callVars, call, dft_patch, dft_show>>

\* show_patch(call.patch)
ShowPatch ==
    /\ pc = "called"
    /\ call.op = "show"
    /\ LET r == show_patch(dft_show, call.patch, call.preview_fails)
       IN  /\ dft_show' = r.dir
           /\ result' = IF r.ok THEN "Ok" ELSE "Err"
    /\ pc' = "returned"
    /\ UNCHANGED <<patchVars, hexVars, textVars, overlapVars, callVars, call, output, dft_patch,
                   dft_append>>

\* the operation has returned and the process goes on: its arguments and its
\* locals are gone, the staging directories stay as the operation left them
Return ==
    /\ pc \in {"returned", "done", "failed"}
    /\ pc' = "idle"
    /\ call' = NoCall
    /\ result' = "none"
    /\ output' = NoOutput
    /\ target_dir' = TreeOf(EmptyMap)
    /\ base' = TreeOf(EmptyMap)
    /\ patch' = NoContainer
    /\ archive' = "tgz"
    /\ checksums' = NewChecksums
    /\ todo' = NoTodo
    /\ log' = <<>>
    /\ warned' = {}
    /\ UNCHANGED <<latest, current, hops, temp_dir, diffs, checksums1,
                   checksums2, merged>>
    /\ UNCHANGED <<hexVars, textVars, overlapVars, target_at, runs, dft_patch, dft_append,
                   dft_show>>

NextProcess == Call \/ ApplyStep \/ CreatePatch \/ MergePatches \/ ShowPatch \/ Return

SpecProcess == InitProcess /\ [][NextProcess]_vars

-----------------------------------------------------------------------------
(* merge_patches of any two containers over the flat paths, in a process that *)
(* has run nothing before                                                     *)

\* the body with the digest h
BodyOf(h) == CHOOSE x \in Contents : compute_file_hash(x) = h

\* a body staged under added/ or modified/ that the manifest does not list
Unlisted == [dir : {"added", "modified"}, path : FlatPaths, content : Contents]

UnlistedSets == {u \in SUBSET Unlisted : Cardinality(u) <= MaxUnlisted}

\* the bodies u are at different places, none at a place the manifest c lists
IsUnlistedOf(u, c) ==
    /\ \A x, y \in u : (x.dir = y.dir /\ x.path = y.path) => x = y
    /\ \A x \in u : x.path \notin (IF x.dir = "added" THEN DOMAIN c.added
                                   ELSE DOMAIN c.modified)

\* the files under the directory dir of u
UnlistedIn(u, dir) ==
    [p \in {x.path : x \in {y \in u : y.dir = dir}} |->
        (CHOOSE x \in u : x.dir = dir /\ x.path = p).content]

\* the container of the manifest c: the bodies c lists, and the bodies u
StagedContainer(c, u) ==
    Container(c,
              Overlay([p \in DOMAIN c.added |-> BodyOf(c.added[p])],
                      UnlistedIn(u, "added")),
              Overlay([p \in DOMAIN c.modified |-> BodyOf(c.modified[p].modified)],
                      UnlistedIn(u, "modified")))

InitMergeFiles ==
    /\ IdleDiff /\ IdleMerge /\ IdleHex /\ IdleText /\ IdleOverlap
    /\ archive = "tgz" /\ target_at = Root /\ runs = 1
    /\ target_dir = TreeOf(EmptyMap)
    /\ base = target_dir
    /\ latest = TreeOf(EmptyMap)
    /\ current = NoContainer
    /\ hops = 0
    /\ patch = NoContainer
    /\ temp_dir = NoTempDir
    /\ checksums = NewChecksums
    /\ todo = NoTodo
    /\ log = <<>>
    /\ warned = {}
    /\ result = "none"
    /\ output = NoOutput
    /\ dft_patch = NoTempDir
    /\ dft_append = NoAppendDir
    /\ dft_show = NoTempDir
    /\ pc = "called"
    /\ \E act1 \in [FlatPaths -> PathActions], act2 \in [FlatPaths -> PathActions],
          u1 \in UnlistedSets, u2 \in UnlistedSets :
          \E o1 \in Perms({q \in FlatPaths : act1[q].kind = "Deleted"}),
             o2 \in Perms({q \in FlatPaths : act2[q].kind = "Deleted"}) :
             /\ Cardinality(u1) + Cardinality(u2) <= MaxUnlisted
             /\ IsUnlistedOf(u1, ManifestOf(act1, o1))
             /\ IsUnlistedOf(u2, ManifestOf(act2, o2))
             /\ call = [op |-> "merge", writable |-> TRUE,
                        first |-> [form |-> "tgz",
                                   tgz |-> StagedContainer(ManifestOf(act1, o1), u1)],
                        second |-> [form |-> "tgz",
                                    tgz |-> StagedContainer(ManifestOf(act2, o2), u2)]]

SpecMergeFiles == InitMergeFiles /\ [][MergePatches]_vars

-----------------------------------------------------------------------------
(* Two apply_patch calls of one process, each on its own target directory,    *)
(* both in the staging directory dft_apply_<pid>; with patch_lock() held      *)
(* around each call, or without                                               *)

Invocations == {1, 2}

\* the removal of the staging directory left out
remove_temp_dir_keep(dir) == [ok |-> TRUE, dir |-> dir]

\* fs::remove_dir_all(&temp_dir): an error when the directory is not there
remove_temp_dir(dir) ==
    IF dir.exists THEN [ok |-> TRUE, dir |-> NoTempDir] ELSE [ok |-> FALSE, dir |-> dir]

\* the regular files WalkDir yields under added/ or modified/ of the staging
\* directory dir: none when the directory is not there
Walk(dir, bodies) == IF dir.exists THEN DOMAIN bodies ELSE {}

\* the invocation r goes on to its next phase when the current one has nothing
\* left; apply_additions and apply_modifications start with the walk of dir
RECURSIVE Advance(_, _)
Advance(r, dir) ==
    IF r.pc = "deletions" /\ r.todo.deleted = <<>>
    THEN Advance([r EXCEPT !.pc = "additions",
                           !.todo.added = Walk(dir, dir.content.added)], dir)
    ELSE IF r.pc = "additions" /\ r.todo.added = {}
    THEN Advance([r EXCEPT !.pc = "modifications",
                           !.todo.modified = Walk(dir, dir.content.modified)], dir)
    ELSE IF r.pc = "modifications" /\ r.todo.modified = {}
    THEN [r EXCEPT !.pc = "cleanup"]
    ELSE r

\* the trees of the two targets
OverlapTrees == {TreeOf(f) : f \in PartialMaps(FlatPaths, {1})}

\* the containers create_patch writes for one action on one flat path, with
\* the body c
OverlapContainers(c) ==
    {NoContainer}
        \cup {Container([NewChecksums EXCEPT !.added = Put(EmptyMap, p, compute_file_hash(c))],
                        Put(EmptyMap, p, c), EmptyMap) : p \in FlatPaths}
        \cup {Container([NewChecksums EXCEPT !.modified =
                            Put(EmptyMap, p, ModifiedChecksum(compute_file_hash(1),
                                                              compute_file_hash(c)))],
                        EmptyMap, Put(EmptyMap, p, c)) : p \in FlatPaths}
        \cup {Container([NewChecksums EXCEPT !.deleted = <<p>>], EmptyMap, EmptyMap) :
                 p \in FlatPaths}

InitOverlap ==
    /\ IdleChain /\ IdleApply /\ IdleDiff /\ IdleMerge
    /\ IdleHex /\ IdleText /\ IdleCall /\ IdleProcess
    /\ pc = "overlap"
    /\ serialised \in BOOLEAN
    /\ patch_lock = 0
    /\ \E t \in [Invocations -> OverlapTrees] :
          \E k1 \in OverlapContainers(1), k2 \in OverlapContainers(MaxContent) :
             invocation = [i \in Invocations |->
                              [pc |-> "ready", target_dir |-> t[i], base |-> t[i],
                               patch |-> IF i = 1 THEN k1 ELSE k2,
                               checksums |-> NewChecksums, todo |-> NoTodo]]

\* what no step of the two invocations changes
overlapFrame ==
    <<base, latest, current, hops, target_dir, patch, checksums, todo, log, warned,
      diffs, checksums1, checksums2, merged, pc, hexVars, textVars, callVars,
      processVars, serialised>>

\* the invocation i is now r; the guard of patch_lock() is dropped when
\* apply_patch has returned
Becomes(i, r) ==
    /\ invocation' = [invocation EXCEPT ![i] = r]
    /\ patch_lock' = IF ~serialised \/ r.pc \in {"done", "failed"} THEN 0 ELSE i

\* patch_lock() when the caller takes it, create_dir_all(temp_dir), extract_patch
OverlapExtract(i) ==
    /\ invocation[i].pc = "ready"
    /\ serialised => patch_lock = 0
    /\ LET extracted == extract_patch([temp_dir EXCEPT !.exists = TRUE],
                                      invocation[i].patch, "tgz")
       IN  /\ temp_dir' = extracted.dir
           /\ Becomes(i, [invocation[i] EXCEPT
                             !.pc = IF extracted.ok THEN "extracted" ELSE "failed"])
    /\ UNCHANGED overlapFrame

\* load_checksums(temp_dir)
OverlapLoad(i) ==
    /\ invocation[i].pc = "extracted"
    /\ LET loaded == load_checksums(temp_dir)
       IN  Becomes(i, IF loaded.ok
                      THEN Advance([invocation[i] EXCEPT
                                       !.checksums = loaded.checksums,
                                       !.todo.deleted = loaded.checksums.deleted,
                                       !.pc = "deletions"], temp_dir)
                      ELSE [invocation[i] EXCEPT !.pc = "failed"])
    /\ UNCHANGED <<temp_dir, overlapFrame>>

\* apply_deletions, the next entry of checksums.deleted
OverlapDeletion(i) ==
    /\ invocation[i].pc = "deletions"
    /\ LET r == invocation[i]
           deleted == apply_deletion(r.target_dir, Head(r.todo.deleted))
       IN  Becomes(i, Advance([r EXCEPT !.target_dir = deleted.fs,
                                        !.todo.deleted = Tail(@),
                                        !.pc = IF deleted.ok THEN @ ELSE "failed"],
                              temp_dir))
    /\ UNCHANGED <<temp_dir, overlapFrame>>

\* apply_additions, the next file of its walk: fs::copy fails when the file is
\* no longer in the staging directory
OverlapAddition(i) ==
    /\ invocation[i].pc = "additions"
    /\ \E p \in invocation[i].todo.added :
          LET r == invocation[i]
              staged == temp_dir.exists /\ p \in DOMAIN temp_dir.content.added
              copied == IF staged
                        THEN apply_addition(r.target_dir, p, temp_dir.content.added[p])
                        ELSE [ok |-> FALSE, fs |-> r.target_dir]
          IN  Becomes(i, Advance([r EXCEPT !.target_dir = copied.fs,
                                           !.todo.added = @ \ {p},
                                           !.pc = IF copied.ok THEN @ ELSE "failed"],
                                 temp_dir))
    /\ UNCHANGED <<temp_dir, overlapFrame>>

\* apply_modifications, the next file of its walk
OverlapModification(i) ==
    /\ invocation[i].pc = "modifications"
    /\ \E p \in invocation[i].todo.modified :
          LET r == invocation[i]
              staged == temp_dir.exists /\ p \in DOMAIN temp_dir.content.modified
              copied == IF staged
                        THEN apply_modification(r.target_dir, p,
                                                temp_dir.content.modified[p], r.checksums)
                        ELSE [ok |-> FALSE, fs |-> r.target_dir]
          IN  Becomes(i, Advance([r EXCEPT !.target_dir = copied.fs,
                                           !.todo.modified = @ \ {p},
                                           !.pc = IF copied.ok THEN @ ELSE "failed"],
                                 temp_dir))
    /\ UNCHANGED <<temp_dir, overlapFrame>>

\* fs::remove_dir_all(temp_dir) and Ok(())
OverlapCleanup(i) ==
    /\ invocation[i].pc = "cleanup"
    /\ LET removed == remove_temp_dir(temp_dir)
       IN  /\ temp_dir' = removed.dir
           /\ Becomes(i, [invocation[i] EXCEPT
                             !.pc = IF removed.ok THEN "done" ELSE "failed"])
    /\ UNCHANGED overlapFrame

NextOverlap ==
    \E i \in Invocations :
        \/ OverlapExtract(i)
        \/ OverlapLoad(i)
        \/ OverlapDeletion(i)
        \/ OverlapAddition(i)
        \/ OverlapModification(i)
        \/ OverlapCleanup(i)

SpecOverlap == InitOverlap /\ [][NextOverlap]_vars

-----------------------------------------------------------------------------
(* apply_patch(T, P) called again on the tree its first call left, in a       *)
(* process whose staging directory is absent or left by an earlier failure    *)

\* the paths of the trees and the containers: 1, 2 and 1/1
ReapplyPaths == FlatPaths \cup {Spine(2)}

ReapplyFileMaps == {f \in PartialMaps(ReapplyPaths, Contents) : ValidFiles(f)}

\* what dft_apply_<pid> is when apply_patch is entered: absent, or the
\* extracted container of an earlier apply_patch that failed, one added file
StaleStagings ==
    {NoTempDir}
        \cup {[exists |-> TRUE, manifest |-> "toml",
               content |-> Container([NewChecksums EXCEPT
                                         !.added = Put(EmptyMap, p, compute_file_hash(c))],
                                     Put(EmptyMap, p, c), EmptyMap)] :
                 p \in ReapplyPaths, c \in Contents}

\* the containers handed to apply_patch: at most MaxStaged staged bodies, listed
\* or not, and any list of at most MaxDeleted paths
IsReapplyContainer(k) ==
    \E a \in ReapplyFileMaps, m \in ReapplyFileMaps :
        /\ Cardinality(DOMAIN a) + Cardinality(DOMAIN m) <= MaxStaged
        /\ \E ka \in SUBSET DOMAIN a, orig \in PartialMaps(DOMAIN m, Digests),
              d \in SeqsUpTo(ReapplyPaths, MaxDeleted) :
                k = Container([added |-> [p \in ka |-> compute_file_hash(a[p])],
                               modified |-> [p \in DOMAIN orig |->
                                   ModifiedChecksum(orig[p], compute_file_hash(m[p]))],
                               deleted |-> d],
                              a, m)

InitReapply ==
    /\ IdleDiff /\ IdleMerge /\ IdleHex /\ IdleText /\ IdleProcess /\ IdleOverlap
    /\ target_dir \in {TreeOf(f) : f \in ReapplyFileMaps}
    /\ base = target_dir
    /\ latest = target_dir
    /\ current = NoContainer
    /\ hops = 0
    /\ IsReapplyContainer(patch)
    /\ archive = "tgz"
    /\ target_at = Root
    /\ runs = 1
    /\ temp_dir \in StaleStagings
    /\ checksums = NewChecksums
    /\ todo = NoTodo
    /\ log = <<>>
    /\ warned = {}
    /\ pc = "ready"

\* the first call has returned Ok(()); apply_patch is called again with the
\* same directory and the same archive; `base` keeps the tree the first call left
Reapply ==
    /\ pc = "done"
    /\ runs = 1
    /\ runs' = 2
    /\ base' = target_dir
    /\ checksums' = NewChecksums
    /\ todo' = NoTodo
    /\ log' = <<>>
    /\ warned' = {}
    /\ pc' = "ready"
    /\ UNCHANGED <<latest, current, hops, target_dir, patch, temp_dir, diffs,
                   checksums1, checksums2, merged>>
    /\ UNCHANGED <<hexVars, textVars, archive, target_at, processVars, overlapVars>>

NextReapply == ApplyStep \/ Reapply

SpecReapply == InitReapply /\ [][NextReapply]_vars

-----------------------------------------------------------------------------
(* HashResult::from_hex.  A string is a sequence of characters; "U+00E9" is a  *)
(* character UTF-8 encodes in two bytes, every other character is ASCII.      *)

HexDigits == {"0", "a", "f", "F"}

Chars == HexDigits \cup {"g", "+", "-", "U+00E9"}

\* the value of a hexadecimal digit, char::to_digit(16)
to_digit(c) ==
    CASE c = "0" -> 0 [] c = "a" -> 10 [] c = "f" -> 15 [] c = "F" -> 15

\* the bytes of the UTF-8 encoding of str: <<c, k>> is the k-th byte of c
RECURSIVE Utf8(_)
Utf8(str) ==
    IF str = <<>> THEN <<>>
    ELSE (IF Head(str) = "U+00E9" THEN <<<<"U+00E9", 1>>, <<"U+00E9", 2>>>> ELSE <<<<Head(str), 1>>>>)
             \o Utf8(Tail(str))

\* str::len: the length in bytes
str_len(str) == Len(Utf8(str))

\* str::is_char_boundary(i)
is_char_boundary(str, i) ==
    \/ i = 0
    \/ i = str_len(str)
    \/ (i < str_len(str) /\ Utf8(str)[i + 1][2] = 1)

\* &str[a..b]: a panic unless both ends are character boundaries
str_slice(str, a, b) ==
    IF ~is_char_boundary(str, a) \/ ~is_char_boundary(str, b) THEN [kind |-> "panic"]
    ELSE LET bytes == SubSeq(Utf8(str), a + 1, b)
             firsts == SelectSeq(bytes, LAMBDA x : x[2] = 1)
         IN  [kind |-> "Ok", str |-> [i \in 1..Len(firsts) |-> firsts[i][1]]]

\* the value of a run of hexadecimal digits, most significant first
RECURSIVE DigitsValue(_, _)
DigitsValue(digits, acc) ==
    IF digits = <<>> THEN acc
    ELSE DigitsValue(Tail(digits), 16 * acc + to_digit(Head(digits)))

\* u8::from_str_radix(src, 16): the empty string and a lone sign are errors, one
\* leading "+" is skipped, every other character has to be a digit, and the
\* value has to fit a byte
from_str_radix(src) ==
    LET digits == IF src # <<>> /\ Head(src) = "+" THEN Tail(src) ELSE src
    IN  IF src = <<>> \/ src = <<"+">> \/ src = <<"-">> THEN [kind |-> "Err"]
        ELSE IF \E i \in 1..Len(digits) : digits[i] \notin HexDigits THEN [kind |-> "Err"]
        ELSE IF DigitsValue(digits, 0) > 255 THEN [kind |-> "Err"]
        ELSE [kind |-> "Ok", byte |-> DigitsValue(digits, 0)]

\* the loop `for i in 0..32` of from_hex, from the byte i on
RECURSIVE FromHexLoop(_, _, _)
FromHexLoop(str, i, hash) ==
    IF i = HashBytes THEN [kind |-> "Ok", hash |-> hash]
    ELSE LET byte_str == str_slice(str, i * 2, i * 2 + 2)
         IN  IF byte_str.kind = "panic" THEN [kind |-> "panic"]
             ELSE LET byte == from_str_radix(byte_str.str)
                  IN  IF byte.kind = "Err" THEN [kind |-> "Err"]
                      ELSE FromHexLoop(str, i + 1, Append(hash, byte.byte))

from_hex(str) ==
    IF str_len(str) # 2 * HashBytes THEN [kind |-> "Err"]
    ELSE FromHexLoop(str, 0, <<>>)

\* the strings handed to from_hex: up to one character more than a digest has
Strings == UNION {[1..n -> Chars] : n \in 0..(2 * HashBytes + 1)}

InitHex ==
    /\ IdleChain /\ IdleApply /\ IdleDiff /\ IdleMerge /\ IdleText /\ IdleCall /\ IdleProcess /\ IdleOverlap
    /\ hex_str \in Strings
    /\ hash_result = [kind |-> "none"]
    /\ pc = "from_hex"

\* HashResult::from_hex(hex_str)
FromHex ==
    /\ pc = "from_hex"
    /\ hash_result' = from_hex(hex_str)
    /\ pc' = "parsed"
    /\ UNCHANGED <<patchVars, hex_str, textVars, callVars, processVars, overlapVars>>

SpecHex == InitHex /\ [][FromHex]_vars

-----------------------------------------------------------------------------
(* is_text_file.  A file has an extension (or none, or one that is not UTF-8) *)
(* and a body of bytes, 0 being the NUL byte.                                 *)

TEXT_EXTENSIONS ==
    {"txt", "md", "json", "xml", "html", "css", "js", "ts", "py", "rs", "go", "java",
     "c", "h", "cpp", "hpp", "toml", "yaml", "yml", "ini", "cfg", "conf", "sh", "bat",
     "ps1", "sql"}

\* Path::extension gives None
NoExtension == ""
\* OsStr::to_str gives None
NotUtf8 == "\\xff"

\* the extensions of the files is_text_file is asked about
Extensions == {"txt", "TXT", "md", "bin", "BIN"}

to_lowercase(e) == CASE e = "TXT" -> "txt" [] e = "BIN" -> "bin" [] OTHER -> e

\* the bytes one read into the buffer yields
Peek(bytes) == SubSeq(bytes, 1, IF Len(bytes) < PeekLen THEN Len(bytes) ELSE PeekLen)

\* is_text_file: the extension decides whenever there is one that is UTF-8; the
\* head of the body is looked at only otherwise; a file that cannot be opened is
\* not text
is_text_file(f) ==
    IF f.extension \notin {NoExtension, NotUtf8}
    THEN to_lowercase(f.extension) \in TEXT_EXTENSIONS
    ELSE IF f.readable THEN \A i \in 1..Len(Peek(f.bytes)) : Peek(f.bytes)[i] # 0
    ELSE FALSE

Files ==
    [extension : Extensions \cup {NoExtension, NotUtf8},
     readable : BOOLEAN,
     bytes : UNION {[1..n -> {0, 1}] : n \in 0..(PeekLen + 1)}]

InitText ==
    /\ IdleChain /\ IdleApply /\ IdleDiff /\ IdleMerge /\ IdleHex /\ IdleCall /\ IdleProcess /\ IdleOverlap
    /\ file_path \in Files
    /\ is_text = FALSE
    /\ pc = "is_text_file"

\* is_text_file(file_path)
IsTextFile ==
    /\ pc = "is_text_file"
    /\ is_text' = is_text_file(file_path)
    /\ pc' = "classified"
    /\ UNCHANGED <<patchVars, hexVars, file_path, callVars, processVars, overlapVars>>

SpecText == InitText /\ [][IsTextFile]_vars

-----------------------------------------------------------------------------
(* Claims about the chain of releases (SpecChain) *)

\* apply_patch has returned for a container folded from n patches
Returned(n) == hops = n /\ pc \in {"done", "failed"}

\* the run succeeded and the patched copy of S0 scans like the newest release
PatchedLikeLatest == pc = "done" /\ DigestScan(target_dir) = DigestScan(latest)

\* C1: for every chain S0 -> S1 -> S2 with non-empty diffs, merge_patches(P1, P2)
\* applied to a copy of S0 succeeds and the scan of the result equals scan(S2)
C1_MergedPatchReachesS2 == Returned(2) => PatchedLikeLatest

\* C2: for every chain S0 -> ... -> Sn, n >= 3, the patches folded from the left
\* by merge_patches and applied to a copy of S0 give a tree that scans like Sn
C2_FoldedPatchReachesSn == (hops >= 3 /\ pc \in {"done", "failed"}) => PatchedLikeLatest

\* C3: for every S and T with different scans, create_patch(S, T) applied to a
\* copy of S succeeds and the scan of the result equals scan(T)
C3_PatchReachesTarget == Returned(1) => PatchedLikeLatest

-----------------------------------------------------------------------------
(* Claims about merge_checksums (SpecMerge) *)

InAdded(p) == p \in DOMAIN merged.added
InModified(p) == p \in DOMAIN merged.modified
TimesDeleted(p) == Cardinality({i \in 1..Len(merged.deleted) : merged.deleted[i] = p})

\* the merged manifest records exactly the action kind for p, nothing else
OnlyAdded(p, h) ==
    InAdded(p) /\ merged.added[p] = h /\ ~InModified(p) /\ TimesDeleted(p) = 0
OnlyModified(p, mc) ==
    InModified(p) /\ merged.modified[p] = mc /\ ~InAdded(p) /\ TimesDeleted(p) = 0
OnlyDeleted(p) == TimesDeleted(p) = 1 /\ ~InAdded(p) /\ ~InModified(p)
Unmentioned(p) == ~InAdded(p) /\ ~InModified(p) /\ TimesDeleted(p) = 0

\* what the merged manifest says of p is what the manifest c says of p
AsIn(c, p) ==
    CASE ActionOf(c, p) = "Added" -> OnlyAdded(p, c.added[p])
      [] ActionOf(c, p) = "Modified" -> OnlyModified(p, c.modified[p])
      [] ActionOf(c, p) = "Deleted" -> OnlyDeleted(p)
      [] OTHER -> Unmentioned(p)

\* the resolution table, for the pair of actions the two manifests record for p
ResolvedAsTabled(p) ==
    LET a1 == ActionOf(checksums1, p)
        a2 == ActionOf(checksums2, p)
    IN  /\ a1 = "absent" => AsIn(checksums2, p)
        /\ a2 = "absent" => AsIn(checksums1, p)
        /\ (a1 = "Added" /\ a2 = "Modified")
              => OnlyAdded(p, checksums2.modified[p].modified)
        /\ (a1 = "Added" /\ a2 = "Deleted") => Unmentioned(p)
        /\ (a1 = "Modified" /\ a2 = "Deleted") => OnlyDeleted(p)
        /\ (a1 = "Deleted" /\ a2 = "Added") => OnlyAdded(p, checksums2.added[p])
        /\ (a1 = "Deleted" /\ a2 = "Deleted") => OnlyDeleted(p)
        /\ (a1 = "Added" /\ a2 = "Added") => OnlyAdded(p, checksums2.added[p])

\* C4: merge_checksums resolves every non-degenerate pair (action of p in P1,
\* action of p in P2) as the resolution table says
C4_ResolutionTable == pc = "merged" => \A p \in FlatPaths : ResolvedAsTabled(p)

\* C4's case: one path deleted then re-added, the other added then modified
C4_Witness ==
    /\ pc = "merged"
    /\ ActionOf(checksums1, <<1>>) = "Deleted" /\ ActionOf(checksums2, <<1>>) = "Added"
    /\ ActionOf(checksums1, <<2>>) = "Added" /\ ActionOf(checksums2, <<2>>) = "Modified"
    /\ checksums1.added[<<2>>] # checksums2.modified[<<2>>].modified

C6_MergedWellFormed ==
    pc = "merged" =>
        /\ DOMAIN merged.added \cap DOMAIN merged.modified = {}
        /\ DOMAIN merged.added \cap Range(merged.deleted) = {}
        /\ DOMAIN merged.modified \cap Range(merged.deleted) = {}
        /\ \A p \in FlatPaths : TimesDeleted(p) <= 1

-----------------------------------------------------------------------------
(* Claims about compare_directories (SpecDiff) *)

\* the entries of diffs that are about the path p
ActionsOn(p) == {i \in 1..Len(diffs) : diffs[i].path = p}

\* C8: compare_directories emits at most one action per path: Added iff the path
\* is in T only, Deleted iff it is in S only, Modified iff it is in both with
\* different digests, nothing iff it is in both with equal digests
C8_DecisionMatrix ==
    pc = "compared" =>
        LET S == DigestScan(base)
            T == DigestScan(latest)
        IN  \A p \in Paths :
              /\ Cardinality(ActionsOn(p)) <= 1
              /\ Added(p) \in Range(diffs) <=> (p \in DOMAIN T /\ p \notin DOMAIN S)
              /\ Deleted(p) \in Range(diffs) <=> (p \in DOMAIN S /\ p \notin DOMAIN T)
              /\ Modified(p) \in Range(diffs)
                    <=> (p \in DOMAIN S /\ p \in DOMAIN T /\ S[p] # T[p])
              /\ (p \in DOMAIN S /\ p \in DOMAIN T /\ S[p] = T[p]) => ActionsOn(p) = {}

\* C8's case: a diff with an Added, a Deleted and a Modified entry, the modified
\* file of the same size in both trees
C8_Witness ==
    /\ pc = "compared"
    /\ \E i, j, k \in 1..Len(diffs) :
          /\ diffs[i].kind = "Added" /\ diffs[j].kind = "Deleted"
          /\ diffs[k].kind = "Modified"
          /\ scan_directory(base)[diffs[k].path].fsize
                = scan_directory(latest)[diffs[k].path].fsize

-----------------------------------------------------------------------------
(* Claims about apply_patch (SpecApply); base is the tree target_dir started as *)

\* invariants 1 to 3 of the container: every key of added and modified has a body
\* with the recorded digest, and the three key sets are pairwise disjoint
ContainerInvariants(k) ==
    /\ \A p \in DOMAIN k.checksums.added :
          p \in DOMAIN k.added /\ compute_file_hash(k.added[p]) = k.checksums.added[p]
    /\ \A p \in DOMAIN k.checksums.modified :
          /\ p \in DOMAIN k.modified
          /\ compute_file_hash(k.modified[p]) = k.checksums.modified[p].modified
    /\ DOMAIN k.checksums.added \cap DOMAIN k.checksums.modified = {}
    /\ DOMAIN k.checksums.added \cap Range(k.checksums.deleted) = {}
    /\ DOMAIN k.checksums.modified \cap Range(k.checksums.deleted) = {}

\* the container stages no body its manifest does not list
NoUnlistedBody(k) ==
    /\ DOMAIN k.added = DOMAIN k.checksums.added
    /\ DOMAIN k.modified = DOMAIN k.checksums.modified

\* the virtual post-state of the manifest c over the pre-state t0, held by t
VirtualPostState(t, t0, c) ==
    \A p \in Paths :
        /\ (p \in Range(c.deleted) /\ p \notin DOMAIN c.added) => ~IsFile(t, p)
        /\ p \in DOMAIN c.added
              => (IsFile(t, p) /\ compute_file_hash(t.files[p]) = c.added[p])
        /\ p \in DOMAIN c.modified
              => (IsFile(t, p) /\ compute_file_hash(t.files[p]) = c.modified[p].modified)
        /\ (p \notin Range(c.deleted) /\ p \notin DOMAIN c.added
                /\ p \notin DOMAIN c.modified)
              => /\ IsFile(t, p) <=> IsFile(t0, p)
                 /\ IsFile(t0, p) => t.files[p] = t0.files[p]

PhaseRank(kind) ==
    CASE kind = "delete" -> 1 [] kind = "add" -> 2 [] kind = "modify" -> 3

\* the mutations apply_patch performed are ordered by phase, and a phase starts
\* only when nothing is left of the phases before it
PhasesOrdered ==
    /\ \A i, j \in 1..Len(log) : i < j => PhaseRank(log[i][1]) <= PhaseRank(log[j][1])
    /\ pc = "additions" => todo.deleted = <<>>
    /\ pc = "modifications" => (todo.deleted = <<>> /\ todo.added = {})
    /\ pc \in {"cleanup", "done"} => todo = NoTodo

\* the paths listed in deleted that also have a body under added/
DeletedAndAdded == Range(patch.checksums.deleted) \cap DOMAIN patch.added

ModifyingPath(p) ==
    pc = "modifications" /\ p \in todo.modified /\ p \notin todo'.modified

\* the target of p is a regular file whose digest is not the recorded original
DigestMismatch(p) ==
    /\ p \in DOMAIN checksums.modified
    /\ IsFile(target_dir, p)
    /\ compute_file_hash(target_dir.files[p]) # checksums.modified[p].original

\* the step copied the staged body over target/<p> and apply_patch goes on with
\* the remaining files, or with the cleanup that ends it in success
CopiedAndGoesOn(p) ==
    /\ IsFile(target_dir', p)
    /\ target_dir'.files[p] = temp_dir.content.modified[p]
    /\ pc' = IF todo'.modified = {} THEN "cleanup" ELSE "modifications"

\* C10 as stated: for every staged modified/<p> whose target exists with another
\* digest than the recorded original, or does not exist at all, apply_patch only
\* warns, copies the staged body over target/<p> and goes on to success
C10_MismatchOnlyWarns ==
    [][\A p \in Paths :
          /\ (ModifyingPath(p) /\ DigestMismatch(p))
                => (CopiedAndGoesOn(p) /\ warned' = warned \cup {p})
          /\ (ModifyingPath(p) /\ ~Exists(target_dir, p))
                => (CopiedAndGoesOn(p) /\ warned' \subseteq warned \cup {p})]_vars

\* C10 amended: the same, the target that does not exist being one no regular
\* file stands in the way of (no prefix of p is a regular file of the target),
\* and no warning is printed for it
C10_MismatchOnlyWarnsCreatable ==
    [][\A p \in Paths :
          /\ (ModifyingPath(p) /\ DigestMismatch(p))
                => (CopiedAndGoesOn(p) /\ warned' = warned \cup {p})
          /\ (ModifyingPath(p) /\ ~Exists(target_dir, p)
                /\ \A q \in Ancestors(p) : ~IsFile(target_dir, q))
                => (CopiedAndGoesOn(p) /\ warned' = warned)]_vars

\* C10's case: apply_patch returned success after a warning about one file and
\* the creation of another that its manifest lists as modified
C10_Witness ==
    /\ pc = "done"
    /\ \E p \in warned :
          /\ IsFile(base, p)
          /\ compute_file_hash(base.files[p]) # patch.checksums.modified[p].original
          /\ target_dir.files[p] = patch.modified[p]
    /\ \E q \in DOMAIN patch.checksums.modified :
          ~Exists(base, q) /\ IsFile(target_dir, q) /\ q \notin warned

-----------------------------------------------------------------------------
(* Claims about HashResult::from_hex (SpecHex) *)

\* exactly 2 * HashBytes characters, every one a hexadecimal digit
IsHexString(str) ==
    Len(str) = 2 * HashBytes /\ \A i \in 1..Len(str) : str[i] \in HexDigits

\* C14 as stated: from_hex accepts a string if and only if it consists of exactly
\* 64 hexadecimal digits, and returns an error, never a digest and never a panic,
\* for every other input
C14_FromHexAcceptsOnlyHex ==
    pc = "parsed" =>
        /\ hash_result.kind = "Ok" <=> IsHexString(hex_str)
        /\ ~IsHexString(hex_str) => hash_result.kind = "Err"

-----------------------------------------------------------------------------
(* Claims about is_text_file (SpecText) *)

\* the head of the body holds no NUL byte
NulFree(f) == \A i \in 1..Len(Peek(f.bytes)) : Peek(f.bytes)[i] # 0

\* C15 as stated: for a file that can be read, is_text_file is true exactly when
\* the extension is a recognised text extension or the first 512 bytes hold no
\* NUL; a file with an unrecognised extension and a NUL-free body is text
C15_TextByExtensionOrContent ==
    (pc = "classified" /\ file_path.readable) =>
        (is_text <=> (to_lowercase(file_path.extension) \in TEXT_EXTENSIONS
                          \/ NulFree(file_path)))

-----------------------------------------------------------------------------
(* Claims about the path strings of the manifest (SpecPathStrings) *)

\* what lies outside the target directory is as it was when apply_patch began
OutsideUntouched ==
    \A x \in DOMAIN base.files \cup DOMAIN target_dir.files :
        (Len(x) < Len(target_at) \/ SubSeq(x, 1, Len(target_at)) # target_at)
            => /\ x \in DOMAIN base.files /\ x \in DOMAIN target_dir.files
               /\ target_dir.files[x] = base.files[x]

\* C20 as stated: every path string of a manifest apply_patch accepts is relative
\* and has no ".." segment, and for any archive whose manifest loads no file
\* outside the target directory is deleted, created or overwritten
C20_WritesOnlyInsideTarget ==
    pc \notin {"ready", "failed"} =>
        /\ \A i \in 1..Len(checksums.deleted) : IsConfined(checksums.deleted[i])
        /\ OutsideUntouched

-----------------------------------------------------------------------------
(* The operations of one process and their staging directories *)

\* the directory holds no file
HoldsNoFile(dir) ==
    /\ dir.manifest = "none"
    /\ dir.content.added = EmptyMap
    /\ dir.content.modified = EmptyMap

\* the operation op is about to extract its archive(s)
ExtractionStarts(op) ==
    IF op = "apply" THEN pc = "ready" ELSE pc = "called" /\ call.op = op

\* C16: every apply, merge or show invocation extracts into a fresh staging
\* directory: when extraction starts the directory holds no file left by an
\* earlier invocation of the process, whether it succeeded or failed
C16_FreshStaging ==
    /\ ExtractionStarts("apply") => HoldsNoFile(temp_dir)
    /\ ExtractionStarts("show") => HoldsNoFile(dft_show)
    /\ ExtractionStarts("merge") =>
          /\ HoldsNoFile(dft_append.first)
          /\ HoldsNoFile(dft_append.second)
          /\ HoldsNoFile(dft_append.merged)

\* C12: apply_patch, merge_patches and show_patch return an error for every
\* archive without a checksums.toml member, whatever the earlier operations of
\* the process were, those that failed after extracting their archive included
C12_RejectsArchiveWithoutManifest ==
    [][/\ (ExtractionStarts("apply") /\ archive = "no_manifest") => pc' = "failed"
       /\ (ExtractionStarts("show") /\ call.patch.form = "no_manifest") => result' = "Err"
       /\ (/\ ExtractionStarts("merge")
           /\ "no_manifest" \in {call.first.form, call.second.form}) => result' = "Err"]_vars

\* C11: when the archive given to apply_patch cannot be extracted or its
\* manifest cannot be loaded, apply_patch returns an error and the target
\* tree stays exactly as it was
C11_UnloadableArchiveLeavesTarget ==
    [][(ExtractionStarts("apply") /\ archive # "tgz")
          => (pc' = "failed" /\ target_dir' = target_dir)]_vars

\* create_patch is called on two trees with equal scans
EmptyDiffCall ==
    /\ call.op = "create"
    /\ scan_directory(call.source) = scan_directory(call.target)

\* C13: when the two trees have equal scans create_patch returns success,
\* creates no staging directory and leaves the file at the output path, or its
\* absence, as it was
C13_EmptyDiffIsNoOp ==
    [][(pc = "called" /\ EmptyDiffCall)
          => (result' = "Ok" /\ dft_patch' = dft_patch /\ output' = output)]_vars

\* C13: create_patch has returned from two equal trees that hold a file, with
\* no file at the output path and no staging directory
C13_Witness ==
    /\ pc = "returned"
    /\ EmptyDiffCall
    /\ DOMAIN scan_directory(call.source) # {}
    /\ result = "Ok"
    /\ ~output.exists
    /\ ~dft_patch.exists

\* the operation op has returned r
HasReturned(op, r) ==
    IF op = "apply" THEN pc = (IF r = "Ok" THEN "done" ELSE "failed")
    ELSE pc = "returned" /\ call.op = op /\ result = r

\* the directory dir holds what extract_patch unpacked from the archive a
HoldsExtracted(dir, a) ==
    \/ a.form = "corrupt"
    \/ /\ \A p \in DOMAIN a.tgz.added :
             p \in DOMAIN dir.content.added /\ dir.content.added[p] = a.tgz.added[p]
       /\ \A p \in DOMAIN a.tgz.modified :
             p \in DOMAIN dir.content.modified
                /\ dir.content.modified[p] = a.tgz.modified[p]
       /\ a.form \in {"tgz", "truncated"} =>
             dir.manifest = "toml" /\ dir.content.checksums = a.tgz.checksums
       /\ a.form = "bad_manifest" => dir.manifest = "garbage"

\* C18: after create_patch, apply_patch, merge_patches or show_patch returns
\* success the staging directory it used is gone; after an error raised at or
\* after extraction the staging directory exists and holds what was extracted
C18_StagingLifecycle ==
    /\ HasReturned("apply", "Ok") => ~temp_dir.exists
    /\ HasReturned("show", "Ok") => ~dft_show.exists
    /\ HasReturned("merge", "Ok") => ~dft_append.exists
    /\ (HasReturned("create", "Ok") /\ ~EmptyDiffCall) => ~dft_patch.exists
    /\ HasReturned("apply", "Err") =>
          temp_dir.exists /\ HoldsExtracted(temp_dir, [form |-> archive, tgz |-> patch])
    /\ HasReturned("show", "Err") =>
          dft_show.exists /\ HoldsExtracted(dft_show, call.patch)
    /\ HasReturned("merge", "Err") =>
          /\ dft_append.exists
          /\ dft_append.first.exists /\ HoldsExtracted(dft_append.first, call.first)
          /\ call.first.form \notin {"corrupt", "truncated"} =>
                dft_append.second.exists
                   /\ HoldsExtracted(dft_append.second, call.second)

\* C18: the second operation of the process is a show_patch that has failed
\* on a preview, after it extracted an archive with a body
C18_Witness ==
    /\ runs = 2
    /\ HasReturned("show", "Err")
    /\ call.patch.form = "tgz"
    /\ DOMAIN call.patch.tgz.modified # {}
    /\ dft_show.content.checksums = call.patch.tgz.checksums
    /\ dft_show.content.modified = call.patch.tgz.modified

-----------------------------------------------------------------------------
(* The bodies of the archive merge_patches writes *)

\* the body copy_merged_files is to take for an added key: that of the second
\* archive, under added/ first and then under modified/, else that of the first
AddedBodyFrom(first, second, p) ==
    IF p \in DOMAIN second.added THEN second.added[p]
    ELSE IF p \in DOMAIN second.modified THEN second.modified[p]
    ELSE first.added[p]

\* the body for a modified key: that of the second archive, else of the first
ModifiedBodyFrom(first, second, p) ==
    IF p \in DOMAIN second.modified THEN second.modified[p] ELSE first.modified[p]

\* every key of the manifest of the written archive has its body, with the
\* recorded digest and from the archive the rule names
MergedBodies ==
    LET m == output.tgz
    IN  /\ \A p \in DOMAIN m.checksums.added :
              /\ p \in DOMAIN m.added
              /\ compute_file_hash(m.added[p]) = m.checksums.added[p]
              /\ m.added[p] = AddedBodyFrom(call.first.tgz, call.second.tgz, p)
        /\ \A p \in DOMAIN m.checksums.modified :
              /\ p \in DOMAIN m.modified
              /\ compute_file_hash(m.modified[p]) = m.checksums.modified[p].modified
              /\ m.modified[p] = ModifiedBodyFrom(call.first.tgz, call.second.tgz, p)

\* merge_patches has written the archive of two containers that satisfy the
\* container invariants
MergedFromWellFormed ==
    /\ HasReturned("merge", "Ok")
    /\ ContainerInvariants(call.first.tgz)
    /\ ContainerInvariants(call.second.tgz)

-----------------------------------------------------------------------------
(* Overlapping invocations of apply_patch *)

RECURSIVE SoloDeletions(_, _)
SoloDeletions(t, d) ==
    IF d = <<>> THEN t ELSE SoloDeletions(apply_deletion(t, Head(d)).fs, Tail(d))

RECURSIVE SoloCopies(_, _, _)
SoloCopies(t, bodies, S) ==
    IF S = {} THEN t
    ELSE LET p == CHOOSE x \in S : TRUE
         IN  SoloCopies(copy_into(t, p, bodies[p]).fs, bodies, S \ {p})

\* the tree a successful apply_patch of the container k makes of the tree t
\* when it runs alone
SoloApply(t, k) ==
    SoloCopies(SoloCopies(SoloDeletions(t, k.checksums.deleted), k.added, DOMAIN k.added),
               k.modified, DOMAIN k.modified)

\* the invocation i has copied a body of the other invocation's container into
\* its target, at a path where its own container has none
ForeignBody(i) ==
    LET r == invocation[i]
        o == invocation[3 - i]
    IN  \E p \in FlatPaths :
           /\ p \notin DOMAIN r.patch.added \cup DOMAIN r.patch.modified
           /\ p \in DOMAIN o.patch.added \cup DOMAIN o.patch.modified
           /\ IsFile(r.target_dir, p)
           /\ r.target_dir.files[p] = Overlay(o.patch.added, o.patch.modified)[p]
           /\ r.target_dir.files[p] # 1

\* the invocation i has applied a deletion of the other invocation's container
ForeignDeletion(i) ==
    LET r == invocation[i]
        o == invocation[3 - i]
    IN  \E p \in Range(o.patch.checksums.deleted) \ Range(r.patch.checksums.deleted) :
           IsFile(r.base, p) /\ ~IsFile(r.target_dir, p)

\* C19: when the two invocations are serialised by patch_lock() and both
\* succeed, each target is what its own container makes of it alone; without
\* the lock there is an interleaving in which an invocation applies a body or
\* a deletion of the other's container, or fails on the removed staging
C19_SerialisedNoInterference ==
    (serialised /\ \A i \in Invocations : invocation # <<>> /\ invocation[i].pc = "done")
        => \A i \in Invocations :
              invocation[i].target_dir = SoloApply(invocation[i].base, invocation[i].patch)

\* C19: without the lock, the first invocation has returned success with a
\* body of the second's container in its target, and the second has failed
\* because the first removed the staging directory
C19_Witness ==
    /\ invocation # <<>>
    /\ ~serialised
    /\ invocation[1].pc = "done"
    /\ ForeignBody(1)
    /\ invocation[2].pc = "failed"
    /\ ~temp_dir.exists

-----------------------------------------------------------------------------
(* apply_patch called twice *)

\* no path of the container is a file in one place and a directory prefix of
\* another of its paths
NoPrefixConflict(k) ==
    LET S == DOMAIN k.added \cup DOMAIN k.modified \cup Range(k.checksums.deleted)
    IN  \A p \in S, q \in S : p \notin Ancestors(q)

\* the second call has returned
Reapplied == runs = 2 /\ pc \in {"done", "failed"}

\* the second call has succeeded and left the scan the first call left
SameAsFirst == pc = "done" /\ DigestScan(target_dir) = DigestScan(base)

\* C21: apply_patch is idempotent on success: for any target tree and any
\* container without a file that is a directory prefix of another of its
\* paths, when apply_patch(T, P) succeeds the second apply_patch(T, P)
\* succeeds too and leaves the scan of the tree as the first left it
C21_Idempotent == (Reapplied /\ NoPrefixConflict(patch)) => SameAsFirst

\* the same where the first call found no staging directory: `latest` keeps
\* the tree handed to the first call, whose walk then met the bodies of the
\* container only
IdempotentFromFreshStaging ==
    (/\ Reapplied
     /\ NoPrefixConflict(patch)
     /\ base = SoloApply(latest, patch)) => SameAsFirst

====
